---------------------------- MODULE Spec2Model ----------------------------
(* A model of the RSS disaster-news scrapers of this repository           *)
(* (check.py, jsonCURR.py, app.py, jsonDEPRE.py): gazetteer loading, date *)
(* normalisation, keyword classification, location resolution and the     *)
(* feed loop.  Text is modelled character by character: a string is a     *)
(* sequence of one-character strings, so that lower(), strip(), the `in`  *)
(* substring test and strptime() are computed, not assumed.               *)
EXTENDS Integers, Sequences, FiniteSets, TLC

VARIABLES
    variant,        \* which script runs: "check", "jsonCURR", "app", "jsonDEPRE"
    pads_year,      \* the C library's strftime("%Y") zero-pads years below 1000
    pc,             \* control position
    csv,            \* what pandas.read_csv does on the cities file
    cities,         \* self.cities
    nfeeds,         \* len(self.feeds)
    feedno,         \* the number of feeds scrape_disasters is done with
    feed,           \* soup.find_all('item') of the feed being read
    pos,            \* the number of its items the loop has taken
    disaster_items, \* _fetch_feed's list of records
    output,         \* scrape_disasters' output
    log,            \* the diagnostics printed or logged so far
    fetched,        \* the feeds read so far: their items, and how many were taken
    call,           \* the function under call (function-level specifications)
    arg,            \* its argument
    ret             \* its completion: [exc |-> "None", val |-> v] or a raise

run_vars == <<nfeeds, feedno, feed, pos, disaster_items, output, fetched>>
vars == <<variant, pads_year, pc, csv, cities, nfeeds, feedno, feed, pos,
          disaster_items, output, log, fetched, call, arg, ret>>

(***************************************************************************)
(* Completions: a Python call returns a value or raises.                   *)
(***************************************************************************)
Ok(v) == [exc |-> "None", val |-> v]
Raise(t) == [exc |-> t, val |-> <<>>]
NoCall == [exc |-> "None", val |-> <<>>]

Min(S) == CHOOSE x \in S : \A y \in S : x <= y
Max(S) == CHOOSE x \in S : \A y \in S : x >= y

(***************************************************************************)
(* Python str operations.                                                  *)
(***************************************************************************)
\* the characters of a string are those of U+0000..U+00FF.  The letters
\* among them that str.lower() changes, and what it changes each to
Upper == <<"A", "B", "C", "D", "E", "F", "G", "H", "I", "J", "K", "L",
           "M", "N", "O", "P", "Q", "R", "S", "T", "U", "V", "W", "X",
           "Y", "Z", "À", "Á", "Â", "Ã", "Ä", "Å", "Æ", "Ç", "È", "É",
           "Ê", "Ë", "Ì", "Í", "Î", "Ï", "Ð", "Ñ", "Ò", "Ó", "Ô", "Õ",
           "Ö", "Ø", "Ù", "Ú", "Û", "Ü", "Ý", "Þ">>
Lower == <<"a", "b", "c", "d", "e", "f", "g", "h", "i", "j", "k", "l",
           "m", "n", "o", "p", "q", "r", "s", "t", "u", "v", "w", "x",
           "y", "z", "à", "á", "â", "ã", "ä", "å", "æ", "ç", "è", "é",
           "ê", "ë", "ì", "í", "î", "ï", "ð", "ñ", "ò", "ó", "ô", "õ",
           "ö", "ø", "ù", "ú", "û", "ü", "ý", "þ">>
Digits == <<"0", "1", "2", "3", "4", "5", "6", "7", "8", "9">>
\* the characters str.isspace() is true of, which are those str.strip()
\* removes and the \s of a str pattern matches: space, tab, newline,
\* return, form feed, U+000B, U+001C..U+001F, U+0085, U+00A0
Whitespace ==
    {" ", "\t", "\n", "\r", "\f",
     "", "", "", "", "", "", " "}

to_lower ==
    [c \in {Upper[i] : i \in DOMAIN Upper} |->
         Lower[CHOOSE i \in DOMAIN Upper : Upper[i] = c]]

lower_char(c) == IF c \in DOMAIN to_lower THEN to_lower[c] ELSE c

\* str.lower()
lower(s) == [i \in 1..Len(s) |-> lower_char(s[i])]

\* str.strip(): leading and trailing whitespace removed
strip(s) ==
    LET keep == {i \in 1..Len(s) : s[i] \notin Whitespace}
    IN  IF keep = {} THEN <<>> ELSE SubSeq(s, Min(keep), Max(keep))

\* needle in hay (substring test)
Contains(hay, needle) ==
    \E i \in 0..(Len(hay) - Len(needle)) :
        \A j \in 1..Len(needle) : hay[i + j] = needle[j]

\* s[m-1:n] of Python: a slice never fails, it is cut at the end of s
Slice(s, m, n) == SubSeq(s, m, IF n <= Len(s) THEN n ELSE Len(s))

\* the character at position i, or a mark no character equals past the end
At(s, i) == IF i >= 1 /\ i <= Len(s) THEN s[i] ELSE "EOS"

IsDigit(c) == \E i \in DOMAIN Digits : Digits[i] = c
DigitVal(c) == (CHOOSE i \in DOMAIN Digits : Digits[i] = c) - 1

RECURSIVE int(_)
\* int() of a string of decimal digits
int(s) == IF s = <<>> THEN 0
          ELSE 10 * int(SubSeq(s, 1, Len(s) - 1)) + DigitVal(s[Len(s)])

RECURSIVE str(_)
\* str() of a natural number
str(n) == IF n < 10 THEN <<Digits[n + 1]>>
          ELSE str(n \div 10) \o <<Digits[(n % 10) + 1]>>

RECURSIVE zfill(_, _)
\* the decimal digits of n, zero-padded to width w
zfill(n, w) == IF Len(str(n)) >= w THEN str(n)
               ELSE <<"0">> \o zfill(n, w - 1)

(***************************************************************************)
(* datetime.strptime(s, '%a, %d %b %Y %H:%M:%S %z') of CPython 3.11: the   *)
(* format compiles to the regular expression                               *)
(*   (mon|..|sun),\s+(3[0-1]|[1-2]\d|0[1-9]|[1-9]| [1-9])\s+(jan|..|dec)   *)
(*   \s+(\d\d\d\d)\s+(2[0-3]|[0-1]\d|\d):([0-5]\d|\d):(6[0-1]|[0-5]\d|\d)  *)
(*   \s+([+-]\d\d:?[0-5]\d(:?[0-5]\d(\.\d{1,6})?)?|Z)                      *)
(* matched case-insensitively (but for Z) from the start of s, and the     *)
(* match must end where s ends.  Every numeric field is followed by a      *)
(* character that is no digit, so a field is the whole run of digits at    *)
(* its place.  A position 0 below means: no match.                         *)
(***************************************************************************)
a_weekday == {<<"m", "o", "n">>, <<"t", "u", "e">>, <<"w", "e", "d">>,
              <<"t", "h", "u">>, <<"f", "r", "i">>, <<"s", "a", "t">>,
              <<"s", "u", "n">>}
a_month == << <<"j", "a", "n">>, <<"f", "e", "b">>, <<"m", "a", "r">>,
              <<"a", "p", "r">>, <<"m", "a", "y">>, <<"j", "u", "n">>,
              <<"j", "u", "l">>, <<"a", "u", "g">>, <<"s", "e", "p">>,
              <<"o", "c", "t">>, <<"n", "o", "v">>, <<"d", "e", "c">> >>

\* a literal character at p
re_lit(s, p, c) == IF p > 0 /\ At(s, p) = c THEN p + 1 ELSE 0

\* \s+ at p
re_ws(s, p) ==
    IF p > 0 /\ At(s, p) \in Whitespace
    THEN Min({i \in p..(Len(s) + 1) : At(s, i) \notin Whitespace})
    ELSE 0

\* the length of the run of digits at p
digit_run(s, p) == Min({i \in p..(Len(s) + 1) : ~IsDigit(At(s, i))}) - p

\* a field of one digit (value in lo1..hi1) or two digits (value in lo2..hi2)
re_num(s, p, lo1, hi1, lo2, hi2) ==
    IF p = 0 THEN 0
    ELSE LET n == digit_run(s, p)
             v == int(Slice(s, p, p + n - 1))
         IN  IF n = 1 /\ lo1 <= v /\ v <= hi1 THEN p + 1
             ELSE IF n = 2 /\ lo2 <= v /\ v <= hi2 THEN p + 2
             ELSE 0

\* a three-letter name of the set names at p
re_name(s, p, names) ==
    IF p > 0 /\ lower(Slice(s, p, p + 2)) \in names THEN p + 3 ELSE 0

\* \d\d\d\d at p
re_year(s, p) == IF p > 0 /\ digit_run(s, p) = 4 THEN p + 4 ELSE 0

\* [0-5]\d at p
re_sixty(s, p) ==
    IF p > 0 /\ IsDigit(At(s, p)) /\ DigitVal(At(s, p)) <= 5
       /\ IsDigit(At(s, p + 1))
    THEN p + 2 ELSE 0

\* the %z group on z, the rest of the string: the offset's hours, or -1
\* when z does not match the group to its end, or the conversion of the
\* matched text raises (a colon used before the minutes and not before the
\* seconds, or the reverse)
tz_hours(z) ==
    IF z = <<"Z">> THEN 0
    ELSE IF ~(At(z, 1) \in {"+", "-"} /\ IsDigit(At(z, 2)) /\ IsDigit(At(z, 3)))
    THEN -1
    ELSE LET c1 == At(z, 4) = ":"
             m  == IF c1 THEN 5 ELSE 4
             e1 == re_sixty(z, m)
             c2 == At(z, e1) = ":"
             sp == IF c2 THEN e1 + 1 ELSE e1
             e2 == re_sixty(z, sp)
             fr == IF At(z, e2) = "." THEN digit_run(z, e2 + 1) ELSE 0
             e3 == IF At(z, e2) = "." THEN e2 + 1 + fr ELSE e2
         IN  IF e1 = 0 THEN -1
             ELSE IF e1 = Len(z) + 1 THEN int(Slice(z, 2, 3))
             ELSE IF e2 = 0 THEN -1
             ELSE IF At(z, e2) = "." /\ (fr < 1 \/ fr > 6) THEN -1
             ELSE IF e3 # Len(z) + 1 THEN -1
             ELSE IF c1 # c2 THEN -1
             ELSE int(Slice(z, 2, 3))

isleap(y) == y % 4 = 0 /\ (y % 100 # 0 \/ y % 400 = 0)
days_in_month(y, m) ==
    IF m = 2 THEN (IF isleap(y) THEN 29 ELSE 28)
    ELSE IF m \in {4, 6, 9, 11} THEN 30 ELSE 31

\* datetime.strptime: the datetime's fields, or ValueError
strptime(s) ==
    LET p1  == re_name(s, 1, a_weekday)
        p2  == re_lit(s, p1, ",")
        p3  == re_ws(s, p2)
        p4  == re_num(s, p3, 1, 9, 1, 31)
        p5  == re_ws(s, p4)
        p6  == re_name(s, p5, {a_month[i] : i \in DOMAIN a_month})
        p7  == re_ws(s, p6)
        p8  == re_year(s, p7)
        p9  == re_ws(s, p8)
        p10 == re_num(s, p9, 0, 9, 0, 23)
        p11 == re_lit(s, p10, ":")
        p12 == re_num(s, p11, 0, 9, 0, 59)
        p13 == re_lit(s, p12, ":")
        p14 == re_num(s, p13, 0, 9, 0, 61)
        p15 == re_ws(s, p14)
        off == tz_hours(Slice(s, p15, Len(s)))
        year   == int(Slice(s, p7, p8 - 1))
        month  == CHOOSE i \in DOMAIN a_month :
                      a_month[i] = lower(Slice(s, p5, p5 + 2))
        day    == int(Slice(s, p3, p4 - 1))
        hour   == int(Slice(s, p9, p10 - 1))
        minute == int(Slice(s, p11, p12 - 1))
        second == int(Slice(s, p13, p14 - 1))
    IN  IF p15 = 0 \/ off < 0 THEN Raise("ValueError")
        ELSE IF year < 1 \/ day > days_in_month(year, month) \/ second > 59
                \/ off > 23
        THEN Raise("ValueError")
        ELSE Ok([year |-> year, month |-> month, day |-> day,
                 hour |-> hour, minute |-> minute, second |-> second])

\* datetime.strftime('%Y-%m-%d %H:%M:%S'): %Y is the C library's, which
\* zero-pads a year below 1000 on some platforms and not on others (glibc)
strftime(d, pads) ==
    (IF pads THEN zfill(d.year, 4) ELSE str(d.year)) \o <<"-">>
    \o zfill(d.month, 2) \o <<"-">> \o zfill(d.day, 2) \o <<" ">>
    \o zfill(d.hour, 2) \o <<":">> \o zfill(d.minute, 2) \o <<":">>
    \o zfill(d.second, 2)

\* the diagnostic of _parse_date: app.py and jsonDEPRE.py log a warning
\* in the handler, check.py and jsonCURR.py stay silent
parse_log(v, date_str) ==
    IF v \in {"app", "jsonDEPRE"} /\ strptime(strip(date_str)).exc # "None"
    THEN <<"warning: parsing date">>
    ELSE <<>>

\* _parse_date falling back to the trimmed string
_parse_date_trimmed(date_str, pads) ==
    LET d == strptime(strip(date_str))
    IN  IF d.exc # "None" THEN Ok(strip(date_str))
        ELSE Ok(strftime(d.val, pads))

\* _parse_date: the formatted date, or date_str itself when anything raises
_parse_date(date_str, pads) ==
    LET d == strptime(strip(date_str))
    IN  IF d.exc # "None" THEN Ok(date_str) ELSE Ok(strftime(d.val, pads))

(***************************************************************************)
(* The disaster classifier: the keyword vocabulary of each script, the     *)
(* relevance test and the list of matched keywords.                        *)
(***************************************************************************)
DISASTER_KEYWORDS_check == <<
    <<"e", "a", "r", "t", "h", "q", "u", "a", "k", "e">>,
    <<"t", "s", "u", "n", "a", "m", "i">>,
    <<"h", "u", "r", "r", "i", "c", "a", "n", "e">>,
    <<"t", "o", "r", "n", "a", "d", "o">>,
    <<"f", "l", "o", "o", "d">>,
    <<"c", "y", "c", "l", "o", "n", "e">>,
    <<"l", "a", "n", "d", "s", "l", "i", "d", "e">>,
    <<"v", "o", "l", "c", "a", "n", "i", "c", " ", "e", "r", "u", "p", "t",
      "i", "o", "n">>,
    <<"w", "i", "l", "d", "f", "i", "r", "e">>,
    <<"s", "t", "o", "r", "m">>,
    <<"a", "v", "a", "l", "a", "n", "c", "h", "e">>,
    <<"d", "r", "o", "u", "g", "h", "t">>,
    <<"n", "a", "t", "u", "r", "a", "l", " ", "d", "i", "s", "a", "s", "t",
      "e", "r">>,
    <<"e", "m", "e", "r", "g", "e", "n", "c", "y">>,
    <<"r", "e", "s", "c", "u", "e">>,
    <<"e", "v", "a", "c", "u", "a", "t", "i", "o", "n">>
    >>

DISASTER_KEYWORDS_jsonCURR == <<
    <<"e", "a", "r", "t", "h", "q", "u", "a", "k", "e">>,
    <<"s", "e", "i", "s", "m", "i", "c">>,
    <<"t", "r", "e", "m", "o", "r">>,
    <<"t", "s", "u", "n", "a", "m", "i">>,
    <<"t", "i", "d", "a", "l", " ", "w", "a", "v", "e">>,
    <<"h", "u", "r", "r", "i", "c", "a", "n", "e">>,
    <<"c", "y", "c", "l", "o", "n", "e">>,
    <<"t", "y", "p", "h", "o", "o", "n">>,
    <<"t", "r", "o", "p", "i", "c", "a", "l", " ", "s", "t", "o", "r", "m">>,
    <<"t", "o", "r", "n", "a", "d", "o">>,
    <<"t", "w", "i", "s", "t", "e", "r">>,
    <<"f", "l", "o", "o", "d">>,
    <<"f", "l", "o", "o", "d", "i", "n", "g">>,
    <<"r", "i", "v", "e", "r", " ", "o", "v", "e", "r", "f", "l", "o", "w">>,
    <<"l", "a", "n", "d", "s", "l", "i", "d", "e">>,
    <<"m", "u", "d", "s", "l", "i", "d", "e">>,
    <<"d", "e", "b", "r", "i", "s", " ", "f", "l", "o", "w">>,
    <<"v", "o", "l", "c", "a", "n", "i", "c", " ", "e", "r", "u", "p", "t",
      "i", "o", "n">>,
    <<"l", "a", "v", "a", " ", "f", "l", "o", "w">>,
    <<"a", "s", "h", " ", "c", "l", "o", "u", "d">>,
    <<"w", "i", "l", "d", "f", "i", "r", "e">>,
    <<"b", "u", "s", "h", "f", "i", "r", "e">>,
    <<"f", "o", "r", "e", "s", "t", " ", "f", "i", "r", "e">>,
    <<"a", "v", "a", "l", "a", "n", "c", "h", "e">>,
    <<"s", "n", "o", "w", " ", "s", "l", "i", "d", "e">>,
    <<"d", "r", "o", "u", "g", "h", "t">>,
    <<"w", "a", "t", "e", "r", " ", "s", "c", "a", "r", "c", "i", "t", "y">>,
    <<"h", "e", "a", "t", "w", "a", "v", "e">>,
    <<"e", "x", "t", "r", "e", "m", "e", " ", "h", "e", "a", "t">>,
    <<"b", "l", "i", "z", "z", "a", "r", "d">>,
    <<"s", "n", "o", "w", "s", "t", "o", "r", "m">>,
    <<"i", "c", "e", " ", "s", "t", "o", "r", "m">>,
    <<"e", "m", "e", "r", "g", "e", "n", "c", "y">>,
    <<"s", "t", "a", "t", "e", " ", "o", "f", " ", "e", "m", "e", "r", "g",
      "e", "n", "c", "y">>,
    <<"r", "e", "s", "c", "u", "e">>,
    <<"e", "v", "a", "c", "u", "a", "t", "i", "o", "n">>,
    <<"d", "i", "s", "p", "l", "a", "c", "e", "m", "e", "n", "t">>,
    <<"r", "e", "l", "i", "e", "f", " ", "e", "f", "f", "o", "r", "t", "s">>,
    <<"h", "u", "m", "a", "n", "i", "t", "a", "r", "i", "a", "n", " ", "a",
      "i", "d">>,
    <<"d", "a", "m", "a", "g", "e", " ", "a", "s", "s", "e", "s", "s", "m",
      "e", "n", "t">>,
    <<"w", "a", "r", "n", "i", "n", "g">>,
    <<"a", "l", "e", "r", "t">>,
    <<"a", "d", "v", "i", "s", "o", "r", "y">>,
    <<"w", "i", "d", "e", "s", "p", "r", "e", "a", "d", " ", "d", "a", "m",
      "a", "g", "e">>,
    <<"d", "e", "s", "t", "r", "u", "c", "t", "i", "o", "n">>,
    <<"c", "a", "s", "u", "a", "l", "t", "i", "e", "s">>,
    <<"m", "i", "s", "s", "i", "n", "g", " ", "p", "e", "r", "s", "o", "n",
      "s">>,
    <<"s", "e", "a", "r", "c", "h", " ", "a", "n", "d", " ", "r", "e", "s",
      "c", "u", "e">>
    >>

DISASTER_KEYWORDS(v) ==
    IF v = "jsonCURR" THEN DISASTER_KEYWORDS_jsonCURR
    ELSE DISASTER_KEYWORDS_check

\* the relevance test with the text's case kept
_is_disaster_related_cased(v, text) ==
    \E i \in DOMAIN DISASTER_KEYWORDS(v) :
        Contains(text, DISASTER_KEYWORDS(v)[i])

\* any(keyword in text.lower() for keyword in self.DISASTER_KEYWORDS)
_is_disaster_related(v, text) ==
    LET text_lower == lower(text)
    IN  \E i \in DOMAIN DISASTER_KEYWORDS(v) :
            Contains(text_lower, DISASTER_KEYWORDS(v)[i])

\* the matched keywords with the text's case kept
disaster_keywords_cased(v, text) ==
    SelectSeq(DISASTER_KEYWORDS(v), LAMBDA keyword : Contains(text, keyword))

\* [keyword for keyword in self.DISASTER_KEYWORDS
\*  if keyword in combined_text.lower()]
disaster_keywords(v, text) ==
    LET text_lower == lower(text)
    IN  SelectSeq(DISASTER_KEYWORDS(v),
                  LAMBDA keyword : Contains(text_lower, keyword))

\* f"{title} {description}"
combined_text(title, description) == title \o <<" ">> \o description

(***************************************************************************)
(* The gazetteer.  pandas.read_csv raises (no such file, an unreadable or  *)
(* an empty file) or returns a table: its column names and its rows, a row *)
(* giving each column a string or NaN, the missing value.                  *)
(***************************************************************************)
NaN == <<"NaN">>

\* df[column]
column_of(df, column) == [i \in 1..Len(df.rows) |-> df.rows[i][column]]
\* Series.dropna()
dropna(series) == SelectSeq(series, LAMBDA x : x # NaN)
\* Series.str.strip()
str_strip(series) == [i \in 1..Len(series) |-> strip(series[i])]
\* Series.str.lower()
str_lower(series) == [i \in 1..Len(series) |-> lower(series[i])]
\* the values a set.update(series) adds
values(series) == {series[i] : i \in 1..Len(series)}

\* check.py, jsonDEPRE.py: name, country, subcountry, lower-cased
load_lower(df, columns) ==
    UNION {values(str_lower(dropna(column_of(df, c)))) :
               c \in {c \in columns : c \in df.columns}}

\* jsonCURR.py: City, State, stripped and lower-cased
load_strip_lower(df, columns) ==
    UNION {values(str_lower(str_strip(dropna(column_of(df, c))))) :
               c \in {c \in columns : c \in df.columns}}

\* Series.str: pandas reads a column whose every row is missing as float64,
\* and the .str accessor raises AttributeError on a column that is not of
\* strings (a table with no rows has columns of strings)
str_raises(series) ==
    series # <<>> /\ \A i \in 1..Len(series) : series[i] = NaN

\* some column that is read has no .str accessor
no_str(df, columns) ==
    \E c \in columns \cap df.columns : str_raises(column_of(df, c))

\* the columns a script reads
columns_read(v) ==
    IF v = "jsonCURR" THEN {"City", "State"}
    ELSE IF v = "app" THEN {"name", "subcountry"}
    ELSE {"name", "country", "subcountry"}

\* what the body of _load_cities does, handlers aside
load_body(v, file) ==
    IF file.exc # "None" THEN file
    ELSE IF no_str(file.val, columns_read(v)) THEN Raise("AttributeError")
    ELSE IF v = "jsonCURR"
    THEN Ok(load_strip_lower(file.val, columns_read(v)))
    ELSE Ok(load_lower(file.val, columns_read(v)))

\* _load_cities: the set of place names; jsonCURR.py has no handler, the
\* other scripts return an empty set on any exception
_load_cities(v, file) ==
    LET r == load_body(v, file)
    IN  IF v = "jsonCURR" \/ r.exc = "None" THEN r ELSE Ok({})

\* __init__: jsonDEPRE.py raises when os.path.exists(cities_file) is false
__init__(v, file) ==
    IF v = "jsonDEPRE" /\ file.exc = "FileNotFoundError"
    THEN Raise("FileNotFoundError")
    ELSE _load_cities(v, file)

(***************************************************************************)
(* The location resolver.  doc is what self.nlp(text) does: it raises, or  *)
(* returns the entities of the text, each with its text and its label.     *)
(* list(a_set) and ', '.join(a_set) take the members in the set's          *)
(* iteration order, which is any order: the resolver's result is one of a  *)
(* set of completions.                                                     *)
(***************************************************************************)
Unknown == <<"U", "n", "k", "n", "o", "w", "n">>

\* the orders in which a set is iterated
Orders(S) ==
    {f \in [1..Cardinality(S) -> S] :
        \A i, j \in 1..Cardinality(S) : f[i] = f[j] => i = j}

RECURSIVE join(_, _)
\* sep.join(list)
join(sep, list) ==
    IF Len(list) = 0 THEN <<>>
    ELSE IF Len(list) = 1 THEN list[1]
    ELSE list[1] \o sep \o join(sep, Tail(list))

\* {ent.text.lower() for ent in doc.ents if ent.label_ == 'GPE'}
ner_locations(ents) ==
    {lower(ents[i].text) : i \in {i \in 1..Len(ents) : ents[i].label_ = "GPE"}}

_extract_locations(v, gazetteer, doc) ==
    IF doc.exc # "None" THEN {doc}
    ELSE LET ner == ner_locations(doc.val)
             matched_locations == gazetteer \cap ner
             matched_states == {state \in ner : state \in gazetteer}
             matched_countries == {country \in ner : country \in gazetteer}
             all_matches == matched_locations \cup matched_states
                              \cup matched_countries
         IN  IF v = "app"
             THEN IF matched_locations # {}
                  THEN {Ok(join(<<",", " ">>, l)) :
                            l \in Orders(matched_locations)}
                  ELSE {Ok(Unknown)}
             ELSE IF v = "jsonCURR"
             THEN IF all_matches # {}
                  THEN {Ok(l) : l \in Orders(all_matches)}
                  ELSE {Ok(<<Unknown>>)}
             ELSE IF matched_locations # {}
                  THEN {Ok(l) : l \in Orders(matched_locations)}
                  ELSE {Ok(<<Unknown>>)}

(***************************************************************************)
(* The feed loop.  An item of a feed gives, for each of its tags, the      *)
(* tag's text or NoTag when entry.find() returns None, and what            *)
(* self.nlp does on the item's combined text.                              *)
(***************************************************************************)
NoTag == <<"None">>

NoOutput == [total_locations |-> -1, disaster_articles |-> <<>>,
             total_disaster_articles |-> -1]

\* what the body of the loop of _fetch_feed does with one item: the records
\* it appends, or the exception it raises.  check.py (lines 64-81) reads an
\* absent tag as ''; jsonCURR.py (lines 91-108) raises AttributeError on
\* None.text.  app.py (lines 76-93) and jsonDEPRE.py (lines 120-136) have
\* no relevance test: they read the four tags, then parse the date, then
\* resolve the locations, and append a record for every item.
loop_body(v, entry, url, gazetteer, pads) ==
    IF v \in {"app", "jsonDEPRE"}
    THEN IF NoTag \in {entry.title, entry.description, entry.link,
                       entry.pubDate}
         THEN {Raise("AttributeError")}
         ELSE LET title == strip(entry.title)
                  description == strip(entry.description)
                  link == strip(entry.link)
                  date == _parse_date(entry.pubDate, pads).val
              IN  {IF l.exc # "None" THEN l
                   ELSE IF v = "app"
                   THEN Ok(<<[Title |-> title, Date |-> date,
                              Description |-> description, Link |-> link,
                              Location |-> l.val, Source |-> url]>>)
                   ELSE Ok(<<[title |-> title, date |-> date,
                              description |-> description, link |-> link,
                              locations |-> l.val, source |-> url]>>) :
                      l \in _extract_locations(v, gazetteer, entry.nlp)}
    ELSE IF v = "check"
    THEN LET title == IF entry.title # NoTag THEN strip(entry.title) ELSE <<>>
             description == IF entry.description # NoTag
                            THEN strip(entry.description) ELSE <<>>
             pub_date == IF entry.pubDate # NoTag
                         THEN strip(entry.pubDate) ELSE <<>>
             link == IF entry.link # NoTag THEN strip(entry.link) ELSE <<>>
             text == combined_text(title, description)
         IN  IF ~_is_disaster_related(v, text) THEN {Ok(<<>>)}
             ELSE {IF l.exc # "None" THEN l
                   ELSE Ok(<<[title |-> title,
                              date |-> _parse_date(pub_date, pads).val,
                              description |-> description,
                              link |-> link,
                              locations |-> l.val,
                              source |-> url,
                              disaster_keywords |->
                                  disaster_keywords(v, text)]>>) :
                      l \in _extract_locations(v, gazetteer, entry.nlp)}
    ELSE IF entry.title = NoTag \/ entry.description = NoTag
    THEN {Raise("AttributeError")}
    ELSE LET title == strip(entry.title)
             description == strip(entry.description)
             text == combined_text(title, description)
         IN  IF ~_is_disaster_related(v, text) THEN {Ok(<<>>)}
             ELSE IF entry.pubDate = NoTag \/ entry.link = NoTag
             THEN {Raise("AttributeError")}
             ELSE {IF l.exc # "None" THEN l
                   ELSE Ok(<<[title |-> title,
                              date |-> _parse_date(entry.pubDate, pads).val,
                              description |-> description,
                              link |-> strip(entry.link),
                              locations |-> l.val,
                              source |-> url,
                              disaster_keywords |->
                                  disaster_keywords(v, text)]>>) :
                      l \in _extract_locations(v, gazetteer, entry.nlp)}

\* the diagnostics of one turn of the loop that ends in completion r:
\* app.py and jsonDEPRE.py log the warning of _parse_date once the four
\* tags are read, and a warning in the handler of AttributeError
entry_log(v, entry, r) ==
    IF v \notin {"app", "jsonDEPRE"} THEN <<>>
    ELSE (IF NoTag \in {entry.title, entry.description, entry.link,
                        entry.pubDate}
          THEN <<>> ELSE parse_log(v, entry.pubDate))
         \o (IF r.exc = "AttributeError"
             THEN <<"warning: parsing entry">> ELSE <<>>)

\* the diagnostics of _load_cities and __init__: check.py prints, app.py and
\* jsonDEPRE.py log, jsonCURR.py does neither
load_log(v, file) ==
    IF v = "jsonCURR" THEN <<>>
    ELSE IF v = "jsonDEPRE" /\ file.exc = "FileNotFoundError" THEN <<>>
    ELSE LET missing == v = "jsonDEPRE" /\ file.exc = "None"
                        /\ columns_read(v) \ file.val.columns # {}
             warned == IF missing THEN <<"warning: missing columns">>
                       ELSE <<>>
         IN  IF load_body(v, file).exc # "None"
             THEN warned \o <<"error: loading cities">>
             ELSE IF v = "check" THEN <<>>
             ELSE warned \o <<"info: loaded">>

(***************************************************************************)
(* Titles and descriptions to classify.                                    *)
(***************************************************************************)
\* 'A flood hit the region'
X_flood_hit == <<"A", " ", "f", "l", "o", "o", "d", " ", "h", "i", "t",
    " ", "t", "h", "e", " ", "r", "e", "g", "i", "o", "n">>
\* 'Local bakery wins award'
X_bakery == <<"L", "o", "c", "a", "l", " ", "b", "a", "k", "e", "r", "y",
    " ", "w", "i", "n", "s", " ", "a", "w", "a", "r", "d">>
\* 'Rainstorm Warning'
X_rainstorm == <<"R", "a", "i", "n", "s", "t", "o", "r", "m", " ", "W",
    "a", "r", "n", "i", "n", "g">>
\* 'STORM after Earthquake, storm again'
X_storm_quake == <<"S", "T", "O", "R", "M", " ", "a", "f", "t", "e", "r",
    " ", "E", "a", "r", "t", "h", "q", "u", "a", "k", "e", ",", " ", "s",
    "t", "o", "r", "m", " ", "a", "g", "a", "i", "n">>
\* 'Cyclone hits Odisha'
X_cyclone == <<"C", "y", "c", "l", "o", "n", "e", " ", "h", "i", "t", "s",
    " ", "O", "d", "i", "s", "h", "a">>
\* 'Officials began evacuation in Odisha state'
X_officials == <<"O", "f", "f", "i", "c", "i", "a", "l", "s", " ", "b",
    "e", "g", "a", "n", " ", "e", "v", "a", "c", "u", "a", "t", "i", "o",
    "n", " ", "i", "n", " ", "O", "d", "i", "s", "h", "a", " ", "s", "t",
    "a", "t", "e">>
\* 'Ash from the VOLCANIC'
X_volcanic == <<"A", "s", "h", " ", "f", "r", "o", "m", " ", "t", "h", "e",
    " ", "V", "O", "L", "C", "A", "N", "I", "C">>
\* 'eruption: state of emergency'
X_eruption == <<"e", "r", "u", "p", "t", "i", "o", "n", ":", " ", "s", "t",
    "a", "t", "e", " ", "o", "f", " ", "e", "m", "e", "r", "g", "e", "n",
    "c", "y">>
\* ''
X_empty == <<>>

Texts == {X_flood_hit, X_bakery, X_rainstorm, X_storm_quake, X_cyclone,
          X_officials, X_volcanic, X_eruption, X_empty}

(***************************************************************************)
(* Dates to normalise: every combination of the parts below, bare or with  *)
(* whitespace around it, and some strings that are no feed date at all.    *)
(***************************************************************************)
W_Mon == <<"M", "o", "n">>
W_tue == <<"t", "u", "e">>
D_02 == <<"0", "2">>
D_2 == <<"2">>
D_31 == <<"3", "1">>
D_29 == <<"2", "9">>
D_00 == <<"0", "0">>
M_Jan == <<"J", "a", "n">>
M_FEB == <<"F", "E", "B">>
Y_2023 == <<"2", "0", "2", "3">>
Y_2024 == <<"2", "0", "2", "4">>
Y_0999 == <<"0", "9", "9", "9">>
Y_0000 == <<"0", "0", "0", "0">>
T_150405 == <<"1", "5", ":", "0", "4", ":", "0", "5">>
T_545 == <<"5", ":", "4", ":", "5">>
T_235960 == <<"2", "3", ":", "5", "9", ":", "6", "0">>
T_240000 == <<"2", "4", ":", "0", "0", ":", "0", "0">>
Z_utc == <<"+", "0", "0", "0", "0">>
Z_m0530 == <<"-", "0", "5", ":", "3", "0">>
Z_Z == <<"Z">>
Z_GMT == <<"G", "M", "T">>
Z_2400 == <<"+", "2", "4", "0", "0">>
Z_mixed == <<"+", "0", "5", ":", "3", "0", "1", "5">>
G_empty == <<>>
G_notadate == <<"n", "o", "t", "-", "a", "-", "d", "a", "t", "e">>
G_blank == <<" ", " ">>
G_iso == <<"2", "0", "2", "3", "-", "0", "1", "-", "0", "2", " ",
           "1", "5", ":", "0", "4", ":", "0", "5">>
\* '\x0ca\x0c'
G_feeds == <<"\f", "a", "\f">>
\* 'Mon,\x0c02 Jan 2023 15:04:05 +0000'
S_formfeed == W_Mon \o <<",", "\f">> \o D_02 \o <<" ">> \o M_Jan \o <<" ">>
              \o Y_2023 \o <<" ">> \o T_150405 \o <<" ">> \o Z_utc
\* '\xa0Mon, 02 Jan 2023\x1f15:04:05\x0b+0000\x1c\x85'
S_separators == <<" ">> \o W_Mon \o <<",", " ">> \o D_02 \o <<" ">> \o M_Jan
                \o <<" ">> \o Y_2023 \o <<"">> \o T_150405 \o <<"">>
                \o Z_utc \o <<"", "">>

Rfc822(w, d, m, y, t, z) ==
    w \o <<",", " ">> \o d \o <<" ">> \o m \o <<" ">> \o y \o <<" ">> \o t
      \o <<" ">> \o z

DateParts ==
    {W_Mon, W_tue} \X {D_02, D_2, D_31, D_29, D_00} \X {M_Jan, M_FEB}
    \X {Y_2023, Y_2024, Y_0999, Y_0000}
    \X {T_150405, T_545, T_235960, T_240000}
    \X {Z_utc, Z_m0530, Z_Z, Z_GMT, Z_2400, Z_mixed}

DateStrings ==
    LET bare == {Rfc822(x[1], x[2], x[3], x[4], x[5], x[6]) : x \in DateParts}
    IN  bare \cup {<<" ">> \o b \o <<"\n">> : b \in bare}
             \cup {G_empty, G_notadate, G_blank, G_iso,
                   <<" ">> \o G_notadate \o <<" ">>,
                   G_feeds, S_formfeed, S_separators}

(***************************************************************************)
(* Cities files and documents for the gazetteer and the resolver.          *)
(***************************************************************************)
MaxRows == 2

P_Odisha == <<" ", "O", "d", "i", "s", "h", "a">>      \* ' Odisha'
P_Evry == <<"É", "v", "r", "y">>                       \* 'Évry'
P_Delhi == <<"D", "e", "l", "h", "i">>
E_Odisha == <<"O", "d", "i", "s", "h", "a">>
E_EVRY == <<"É", "V", "R", "Y">>                       \* 'ÉVRY'

Cells == {NaN, P_Odisha, P_Evry, Unknown}
ColumnSets == {{"name", "subcountry"}, {"City", "State"}, {"population"}}

SeqsUpTo(S, n) == UNION {[1..k -> S] : k \in 0..n}

Tables ==
    UNION {[columns : {cs}, rows : SeqsUpTo([cs -> Cells], MaxRows)] :
               cs \in ColumnSets}

CitiesFiles ==
    {Raise("FileNotFoundError"), Raise("PermissionError"),
     Raise("EmptyDataError")} \cup {Ok(t) : t \in Tables}

Ent(text, label) == [text |-> text, label_ |-> label]

Docs ==
    {Raise("ValueError"),
     Ok(<<>>),
     Ok(<<Ent(E_Odisha, "GPE")>>),
     Ok(<<Ent(E_EVRY, "GPE"), Ent(P_Evry, "GPE"), Ent(E_Odisha, "PERSON")>>),
     Ok(<<Ent(E_Odisha, "GPE"), Ent(P_Delhi, "GPE"), Ent(E_EVRY, "GPE")>>),
     Ok(<<Ent(Unknown, "GPE"), Ent(P_Delhi, "ORG")>>)}

NoFile == Raise("FileNotFoundError")

(***************************************************************************)
(* The date normaliser alone: one call of _parse_date.                     *)
(***************************************************************************)
NoRun ==
    /\ nfeeds = 0 /\ feedno = 0 /\ feed = <<>> /\ pos = 0
    /\ disaster_items = <<>> /\ output = NoOutput /\ fetched = <<>>
    /\ log = <<>>

InitDate ==
    /\ variant \in {"check", "jsonCURR", "app", "jsonDEPRE"}
    /\ pads_year \in BOOLEAN
    /\ pc = "call"
    /\ csv = NoFile /\ cities = {}
    /\ NoRun
    /\ call = "_parse_date"
    /\ arg \in DateStrings
    /\ ret = NoCall

CallParseDate ==
    /\ pc = "call" /\ call = "_parse_date"
    /\ ret' = _parse_date(arg, pads_year)
    /\ log' = log \o parse_log(variant, arg)
    /\ pc' = "return"
    /\ UNCHANGED <<variant, pads_year, csv, cities, nfeeds, feedno, feed, pos,
                   disaster_items, output, fetched, call, arg>>

SpecDate == InitDate /\ [][CallParseDate]_vars

(***************************************************************************)
(* The classifier alone: the title and description of one item are         *)
(* trimmed, joined and classified as _fetch_feed does (check.py lines      *)
(* 64-80, jsonCURR.py lines 91-107).                                       *)
(***************************************************************************)
InitClassify ==
    /\ variant \in {"check", "jsonCURR"}
    /\ pads_year \in BOOLEAN
    /\ pc = "call"
    /\ csv = NoFile /\ cities = {}
    /\ NoRun
    /\ call = "classify"
    /\ arg \in [title : Texts, description : Texts]
    /\ ret = NoCall

classify(v, title, description) ==
    LET text == combined_text(strip(title), strip(description))
    IN  Ok([combined_text |-> text,
            relevant |-> _is_disaster_related(v, text),
            disaster_keywords |-> disaster_keywords(v, text)])

CallClassify ==
    /\ pc = "call" /\ call = "classify"
    /\ ret' = classify(variant, arg.title, arg.description)
    /\ pc' = "return"
    /\ UNCHANGED <<variant, pads_year, csv, cities, run_vars, log, call, arg>>

SpecClassify == InitClassify /\ [][CallClassify]_vars

(***************************************************************************)
(* The gazetteer and the resolver alone: a scraper is constructed on a     *)
(* cities file, then resolves the locations of one document.               *)
(***************************************************************************)
InitLocations ==
    /\ variant \in {"check", "jsonCURR", "app", "jsonDEPRE"}
    /\ pads_year = FALSE
    /\ pc = "new"
    /\ csv \in CitiesFiles /\ cities = {}
    /\ NoRun
    /\ call = "_extract_locations"
    /\ arg \in Docs
    /\ ret = NoCall

\* __init__: self.cities = self._load_cities(cities_file)
Construct ==
    /\ pc = "new"
    /\ LET r == __init__(variant, csv)
       IN  /\ ret' = r
           /\ IF r.exc = "None"
              THEN cities' = r.val /\ pc' = "ready"
              ELSE cities' = cities /\ pc' = "raised"
    /\ log' = log \o load_log(variant, csv)
    /\ UNCHANGED <<variant, pads_year, csv, run_vars, call, arg>>

CallExtractLocations ==
    /\ pc = "ready" /\ call = "_extract_locations"
    /\ \E r \in _extract_locations(variant, cities, arg) : ret' = r
    /\ pc' = "return"
    /\ UNCHANGED <<variant, pads_year, csv, cities, run_vars, log, call, arg>>

SpecLocations == InitLocations /\ [][Construct \/ CallExtractLocations]_vars

(***************************************************************************)
(* The run: main() constructs the scraper and calls scrape_disasters,      *)
(* which reads each feed in turn.  The feeds' items are drawn from Items,  *)
(* MaxItems of them at most in a run.                                      *)
(***************************************************************************)
MaxFeeds == 2
MaxItems == 2

\* ' Flood in Odisha'
I_title == <<" ", "F", "l", "o", "o", "d", " ", "i", "n", " ", "O", "d",
             "i", "s", "h", "a">>
\* 'Rescue teams sent'
I_description == <<"R", "e", "s", "c", "u", "e", " ", "t", "e", "a", "m", "s",
                   " ", "s", "e", "n", "t">>
\* 'Village fair'
I_fair == <<"V", "i", "l", "l", "a", "g", "e", " ", "f", "a", "i", "r">>
\* 'Opens today'
I_opens == <<"O", "p", "e", "n", "s", " ", "t", "o", "d", "a", "y">>
\* 'Tue, 10 Oct 2023 08:00:00 +0000'
I_date == <<"T", "u", "e", ",", " ", "1", "0", " ", "O", "c", "t", " ", "2",
            "0", "2", "3", " ", "0", "8", ":", "0", "0", ":", "0", "0", " ",
            "+", "0", "0", "0", "0">>
\* ' soon '
I_soon == <<" ", "s", "o", "o", "n", " ">>
\* 'x.in/1'
I_link == <<"x", ".", "i", "n", "/", "1">>

WellFormed == [title |-> I_title, description |-> I_description,
               pubDate |-> I_date, link |-> I_link,
               nlp |-> Ok(<<Ent(E_Odisha, "GPE")>>)]

Items ==
    {WellFormed,
     [WellFormed EXCEPT !.title = I_fair, !.description = I_opens],
     [WellFormed EXCEPT !.title = NoTag],
     [WellFormed EXCEPT !.pubDate = NoTag],
     [WellFormed EXCEPT !.pubDate = I_soon],
     [WellFormed EXCEPT !.pubDate = <<>>],
     [WellFormed EXCEPT !.nlp = Raise("ValueError")],
     [WellFormed EXCEPT !.nlp = Raise("RequestException")]}

RunFiles ==
    {Raise("FileNotFoundError"),
     Ok([columns |-> {"name", "City"},
         rows |-> <<[c \in {"name", "City"} |->
                        IF c = "name" THEN E_Odisha ELSE P_Odisha]>>])}

\* the dates of Items have years of four digits, which strftime formats
\* alike whether or not it pads
InitRun ==
    /\ variant \in {"check", "jsonCURR"}
    /\ pads_year = FALSE
    /\ pc = "new"
    /\ csv \in RunFiles /\ cities = {}
    /\ nfeeds \in 1..MaxFeeds
    /\ feedno = 0 /\ feed = <<>> /\ pos = 0
    /\ disaster_items = <<>> /\ output = NoOutput /\ fetched = <<>>
    /\ log = <<>>
    /\ call = "main"
    /\ arg = <<>>
    /\ ret = NoCall

\* the number of items read from the feeds so far
ItemsRead ==
    LET F[i \in 0..Len(fetched)] ==
            IF i = 0 THEN 0 ELSE F[i - 1] + Len(fetched[i].items)
    IN  F[Len(fetched)]

\* the exceptions requests.get, raise_for_status and BeautifulSoup raise
\* in _fetch_feed before its loop: a RequestException, or another one (a
\* ValueError: bs4.FeatureNotFound when there is no XML parser)
FetchRaises == {"RequestException", "ValueError"}

\* the diagnostics of the handlers around the loop of _fetch_feed for an
\* exception of type t: check.py prints in both its handlers, app.py and
\* jsonDEPRE.py log in their one handler, jsonCURR.py passes
feed_log(v, t) ==
    IF t = "RequestException"
    THEN IF v = "jsonCURR" THEN <<>> ELSE <<"error: fetching feed">>
    ELSE IF v = "check" THEN <<"error: processing feed">> ELSE <<>>

\* the handlers around the loop catch an exception of type t: every script
\* catches RequestException, check.py alone catches Exception
feed_catches(v, t) == t = "RequestException" \/ v = "check"

\* scrape_disasters, up to its loop over the feeds; app.py's scrape has
\* all_items alone, and no metadata
Scrape ==
    /\ pc = "ready" /\ call = "main"
    /\ variant \in {"check", "jsonCURR", "app"}
    /\ output' = IF variant = "app" THEN NoOutput
                 ELSE [total_locations |-> Cardinality(cities),
                       disaster_articles |-> <<>>,
                       total_disaster_articles |-> -1]
    /\ pc' = "feeds"
    /\ UNCHANGED <<variant, pads_year, csv, cities, nfeeds, feedno, feed, pos,
                   disaster_items, log, fetched, call, arg, ret>>

\* _fetch_feed, up to its loop over the items: an exception is raised
\* before the loop, or the feed's items are found.  app.py's scrape logs
\* the feed before it fetches it.
FetchFeed ==
    /\ pc = "feeds" /\ feedno < nfeeds
    /\ disaster_items' = <<>>
    /\ pos' = 0
    /\ LET scraping == IF variant = "app" THEN <<"info: scraping feed">>
                       ELSE <<>>
       IN  \/ \E t \in FetchRaises :
                 /\ feed' = <<>>
                 /\ log' = log \o scraping \o feed_log(variant, t)
                 /\ IF feed_catches(variant, t)
                    THEN pc' = "feed_end" /\ ret' = ret
                    ELSE pc' = "raised" /\ ret' = Raise(t)
           \/ /\ feed' \in SeqsUpTo(Items, MaxItems - ItemsRead)
              /\ log' = log \o scraping
              /\ pc' = "loop"
              /\ ret' = ret
    /\ UNCHANGED <<variant, pads_year, csv, cities, nfeeds, feedno, output,
                   fetched, call, arg>>

\* the handler inside the loop skips the item on an exception of type t:
\* check.py has no handler there, the other scripts catch AttributeError
skips(v, t) == v # "check" /\ t = "AttributeError"

\* a turn of the loop that also adds the places it found in the item to
\* self.cities
ProcessEntry_learning ==
    /\ pc = "loop" /\ pos < Len(feed)
    /\ pos' = pos + 1
    /\ cities' = IF feed[pos + 1].nlp.exc = "None"
                 THEN cities \cup ner_locations(feed[pos + 1].nlp.val)
                 ELSE cities
    /\ \E r \in loop_body(variant, feed[pos + 1], feedno + 1, cities,
                          pads_year) :
        /\ log' = log \o entry_log(variant, feed[pos + 1], r)
                       \o (IF r.exc = "None" \/ skips(variant, r.exc)
                           THEN <<>> ELSE feed_log(variant, r.exc))
        /\ IF r.exc = "None"
           THEN /\ disaster_items' = disaster_items \o r.val
                /\ UNCHANGED <<pc, ret>>
           ELSE IF skips(variant, r.exc)
           THEN UNCHANGED <<disaster_items, pc, ret>>
           ELSE IF feed_catches(variant, r.exc)
           THEN /\ pc' = "feed_end"
                /\ UNCHANGED <<disaster_items, ret>>
           ELSE /\ ret' = r
                /\ pc' = "raised"
                /\ UNCHANGED disaster_items
    /\ UNCHANGED <<variant, pads_year, csv, nfeeds, feedno, feed,
                   output, fetched, call, arg>>

\* one turn of the loop over the items, with the handlers around it: the
\* item's record is appended, or the item is skipped, or the handler
\* around the loop ends the feed, or the exception leaves the run
ProcessEntry ==
    /\ pc = "loop" /\ pos < Len(feed)
    /\ pos' = pos + 1
    /\ \E r \in loop_body(variant, feed[pos + 1], feedno + 1, cities,
                          pads_year) :
        /\ log' = log \o entry_log(variant, feed[pos + 1], r)
                       \o (IF r.exc = "None" \/ skips(variant, r.exc)
                           THEN <<>> ELSE feed_log(variant, r.exc))
        /\ IF r.exc = "None"
           THEN /\ disaster_items' = disaster_items \o r.val
                /\ UNCHANGED <<pc, ret>>
           ELSE IF skips(variant, r.exc)
           THEN UNCHANGED <<disaster_items, pc, ret>>
           ELSE IF feed_catches(variant, r.exc)
           THEN /\ pc' = "feed_end"
                /\ UNCHANGED <<disaster_items, ret>>
           ELSE /\ ret' = r
                /\ pc' = "raised"
                /\ UNCHANGED disaster_items
    /\ UNCHANGED <<variant, pads_year, csv, cities, nfeeds, feedno, feed,
                   output, fetched, call, arg>>

\* the feed's records put before the output's, not after
ReturnFeed_prepended ==
    /\ \/ pc = "feed_end"
       \/ pc = "loop" /\ pos = Len(feed)
    /\ output' = [output EXCEPT !.disaster_articles = disaster_items \o @]
    /\ fetched' = Append(fetched, [items |-> feed, taken |-> pos])
    /\ feedno' = feedno + 1
    /\ feed' = <<>> /\ pos' = 0 /\ disaster_items' = <<>>
    /\ pc' = "feeds"
    /\ UNCHANGED <<variant, pads_year, csv, cities, nfeeds, log, call, arg,
                   ret>>

\* _fetch_feed returns disaster_items, and scrape_disasters extends its
\* output with them
ReturnFeed ==
    /\ \/ pc = "feed_end"
       \/ pc = "loop" /\ pos = Len(feed)
    /\ output' = [output EXCEPT !.disaster_articles = @ \o disaster_items]
    /\ fetched' = Append(fetched, [items |-> feed, taken |-> pos])
    /\ feedno' = feedno + 1
    /\ feed' = <<>> /\ pos' = 0 /\ disaster_items' = <<>>
    /\ pc' = "feeds"
    /\ UNCHANGED <<variant, pads_year, csv, cities, nfeeds, log, call, arg,
                   ret>>

\* scrape_disasters after its loop; app.py's scrape returns its items as a
\* DataFrame
Finish ==
    /\ pc = "feeds" /\ feedno = nfeeds
    /\ output' = IF variant = "app" THEN output
                 ELSE [output EXCEPT !.total_disaster_articles =
                                         Len(output.disaster_articles)]
    /\ ret' = IF variant = "app" THEN Ok(output.disaster_articles)
              ELSE Ok(output')
    /\ pc' = "done"
    /\ UNCHANGED <<variant, pads_year, csv, cities, nfeeds, feedno, feed, pos,
                   disaster_items, log, fetched, call, arg>>

\* app.py's save_to_csv: df.to_csv writes the file or raises, and either
\* way a line is logged and nothing is raised
save_to_csv ==
    /\ pc = "done" /\ call = "main" /\ variant = "app"
    /\ \E saved \in BOOLEAN :
           log' = Append(log, IF saved THEN "info: saved"
                              ELSE "error: saving")
    /\ ret' = Ok(<<>>)
    /\ pc' = "saved"
    /\ UNCHANGED <<variant, pads_year, csv, cities, run_vars, call, arg>>

\* main() of check.py and jsonCURR.py after scrape_disasters has returned:
\* open() and json.dump write the output file or raise.  check.py prints a
\* line either way and raises nothing; jsonCURR.py prints nothing and has no
\* handler, so the exception leaves main
save_json ==
    /\ pc = "done" /\ call = "main" /\ variant \in {"check", "jsonCURR"}
    /\ \E saved \in BOOLEAN :
           IF variant = "check"
           THEN /\ log' = Append(log, IF saved THEN "info: saved"
                                      ELSE "error: saving")
                /\ ret' = Ok(<<>>)
                /\ pc' = "saved"
           ELSE /\ log' = log
                /\ ret' = IF saved THEN Ok(<<>>) ELSE Raise("OSError")
                /\ pc' = IF saved THEN "saved" ELSE "raised"
    /\ UNCHANGED <<variant, pads_year, csv, cities, run_vars, call, arg>>

Next ==
    \/ Construct
    \/ Scrape
    \/ FetchFeed
    \/ ProcessEntry
    \/ ReturnFeed
    \/ Finish
    \/ save_json

Spec == InitRun /\ [][Next]_vars

(***************************************************************************)
(* The run of app.py: main() constructs the scraper, scrape() reads the    *)
(* feeds and keeps every item, save_to_csv writes the items.               *)
(***************************************************************************)
InitApp ==
    /\ variant = "app"
    /\ pads_year = FALSE
    /\ pc = "new"
    /\ csv \in RunFiles /\ cities = {}
    /\ nfeeds \in 1..MaxFeeds
    /\ feedno = 0 /\ feed = <<>> /\ pos = 0
    /\ disaster_items = <<>> /\ output = NoOutput /\ fetched = <<>>
    /\ log = <<>>
    /\ call = "main"
    /\ arg = <<>>
    /\ ret = NoCall

NextApp ==
    \/ Construct
    \/ Scrape
    \/ FetchFeed
    \/ ProcessEntry
    \/ ReturnFeed
    \/ Finish
    \/ save_to_csv

SpecApp == InitApp /\ [][NextApp]_vars

(***************************************************************************)
(* The run of jsonDEPRE.py: main() constructs the scraper and calls        *)
(* scraper.scrape(), all inside one try.  The class defines no scrape      *)
(* method, so the call raises AttributeError; the constructor raises       *)
(* FileNotFoundError when the cities file is missing.  main's handler      *)
(* catches either, logs an error and main returns.                         *)
(***************************************************************************)
InitDEPRE ==
    /\ variant = "jsonDEPRE"
    /\ pads_year = FALSE
    /\ pc = "new"
    /\ csv \in RunFiles /\ cities = {}
    /\ nfeeds \in 1..MaxFeeds
    /\ feedno = 0 /\ feed = <<>> /\ pos = 0
    /\ disaster_items = <<>> /\ output = NoOutput /\ fetched = <<>>
    /\ log = <<>>
    /\ call = "main"
    /\ arg = <<>>
    /\ ret = NoCall

\* the except clause of jsonDEPRE.py's main: reached from the constructor's
\* raise or from the AttributeError of the missing scrape method
scraping_failed ==
    /\ variant = "jsonDEPRE" /\ call = "main"
    /\ pc \in {"ready", "raised"}
    /\ log' = Append(log, "error: scraping failed")
    /\ ret' = Ok(<<>>)
    /\ pc' = "failed"
    /\ UNCHANGED <<variant, pads_year, csv, cities, run_vars, call, arg>>

NextDEPRE == Construct \/ scraping_failed

SpecDEPRE == InitDEPRE /\ [][NextDEPRE]_vars

(***************************************************************************)
(* The classifier and the run together: the relevance flag is checked on   *)
(* the classifier's own result and on the records a run emits.             *)
(***************************************************************************)
SpecRelevance == (InitClassify \/ InitRun) /\ [][CallClassify \/ Next]_vars

(***************************************************************************)
(* Properties.                                                             *)
(***************************************************************************)
Members(list) == {list[i] : i \in 1..Len(list)}

\* the candidate set of the document under resolution
Candidates ==
    {lower(arg.val[i].text) :
         i \in {i \in 1..Len(arg.val) : arg.val[i].label_ = "GPE"}}

Resolved == pc = "return" /\ call = "_extract_locations" /\ ret.exc = "None"

\* C1: the resolver returns the one-element sequence ["Unknown"] exactly
\* when no candidate is in the gazetteer, and otherwise a sequence whose
\* members are the members of the intersection, each once, in some order;
\* it never returns an empty container.
C1_ResolveIntersection ==
    Resolved =>
        LET I == Candidates \cap cities
        IN  /\ (ret.val = <<Unknown>>) <=> (I = {})
            /\ I # {} => /\ Members(ret.val) = I
                         /\ Len(ret.val) = Cardinality(I)
            /\ ret.val # <<>>

Classified == pc = "return" /\ call = "classify"

Records == Members(disaster_items) \cup Members(output.disaster_articles)

\* C4: the relevance flag of a text is true exactly when its list of
\* matched keywords is not empty, and every record a run emits has a
\* non-empty disaster_keywords list.
C4_RelevantIffKeywords ==
    /\ Classified =>
           (ret.val.relevant <=> ret.val.disaster_keywords # <<>>)
    /\ call = "main" => \A r \in Records : r.disaster_keywords # <<>>

\* a text is relevant by a keyword inside a longer word
C4_Witness ==
    /\ Classified
    /\ arg.title = X_rainstorm /\ arg.description = X_empty
    /\ variant = "check"
    /\ ret.val.relevant
    /\ Len(ret.val.disaster_keywords) = 1

\* keyword k occurs in text, letter case ignored
OccursIgnoringCase(k, text) ==
    \E off \in 0..(Len(text) - Len(k)) :
        \A n \in 1..Len(k) : lower_char(text[off + n]) = lower_char(k[n])

IndexIn(V, k) == CHOOSE j \in DOMAIN V : V[j] = k

\* C5: the matched keywords are the vocabulary entries that occur in the
\* combined text as a substring, letter case ignored, in the vocabulary's
\* order and each once.
C5_KeywordsInVocabularyOrder ==
    Classified =>
        LET V == DISASTER_KEYWORDS(variant)
            kw == ret.val.disaster_keywords
            text == strip(arg.title) \o <<" ">> \o strip(arg.description)
        IN  /\ \A i \in 1..Len(kw) : \E j \in DOMAIN V : V[j] = kw[i]
            /\ \A i, j \in 1..Len(kw) :
                   i < j => IndexIn(V, kw[i]) < IndexIn(V, kw[j])
            /\ \A j \in DOMAIN V :
                   (\E i \in 1..Len(kw) : kw[i] = V[j])
                       <=> OccursIgnoringCase(V[j], text)

\* "storm" comes first in the text, twice and inside "Rainstorm", and
\* second in the result, once
C5_Witness ==
    /\ Classified
    /\ variant = "check"
    /\ arg.title = X_storm_quake /\ arg.description = X_rainstorm
    /\ ret.val.disaster_keywords =
           <<DISASTER_KEYWORDS_check[1], DISASTER_KEYWORDS_check[10]>>

Normalized == pc = "return" /\ call = "_parse_date"

\* the string is a feed date: strptime takes it, once trimmed
Conforms(date_str) == strptime(strip(date_str)).exc = "None"

\* C6: the date normaliser never raises, and returns a string that is no
\* feed date as it is, in every character.
C6_FallbackIsVerbatim ==
    Normalized =>
        /\ ret.exc = "None"
        /\ ~Conforms(arg) => ret.val = arg
        /\ arg \in {G_empty, G_notadate, G_blank, G_iso} => ret.val = arg

\* a string that is no date, with whitespace around it, came back as it was
C6_Witness ==
    /\ Normalized
    /\ arg = <<" ">> \o G_notadate \o <<" ">>
    /\ ret = Ok(arg)

\* YYYY-MM-DD HH:MM:SS of the fields of a feed date
Canonical(d) ==
    zfill(d.year, 4) \o <<"-">> \o zfill(d.month, 2) \o <<"-">>
    \o zfill(d.day, 2) \o <<" ">> \o zfill(d.hour, 2) \o <<":">>
    \o zfill(d.minute, 2) \o <<":">> \o zfill(d.second, 2)

\* C8: a feed date normalises to YYYY-MM-DD HH:MM:SS of its own year,
\* month, day, hour, minute and second, whatever its timezone offset.
C8_CanonicalDate ==
    (Normalized /\ Conforms(arg)) =>
        ret.val = Canonical(strptime(strip(arg)).val)

Built == pc \in {"ready", "return"} /\ call = "_extract_locations"

\* the cities file is unreadable, empty or has none of the script's columns
NoReference ==
    \/ csv.exc # "None"
    \/ /\ csv.exc = "None"
       /\ \/ csv.val.rows = <<>>
          \/ csv.val.columns \cap
                 {"name", "country", "subcountry", "City", "State"} = {}

\* C9: building the gazetteer never fails; on an unreadable or empty cities
\* file, or one with no recognised column, the gazetteer is empty, and the
\* resolver then returns ["Unknown"].
C9_BuildNeverFails ==
    /\ call = "_extract_locations" => pc # "raised"
    /\ (Built /\ NoReference) => cities = {}
    /\ (Resolved /\ cities = {}) =>
           ret.val = IF variant = "app" THEN Unknown ELSE <<Unknown>>

\* C10: every entry of the gazetteer is lower-cased and has no whitespace
\* around it, and every value of a configured column is in it in that form
\* (the cities file is one that the script reads to the end).
C10_EntriesNormalized ==
    (Built /\ csv.exc = "None" /\ load_body(variant, csv).exc = "None") =>
        /\ \A c \in cities : lower(c) = c /\ strip(c) = c
        /\ \A i \in 1..Len(csv.val.rows) :
               \A col \in columns_read(variant) \cap csv.val.columns :
                   csv.val.rows[i][col] # NaN =>
                       lower(strip(csv.val.rows[i][col])) \in cities

\* the run raised out of scrape_disasters
RunRaised == call = "main" /\ pc = "raised" /\ output # NoOutput

\* what the loop does with an item, whatever order the locations come in
Fails(item, url) ==
    \E r \in loop_body(variant, item, url, cities, pads_year) : r.exc # "None"

\* the item has all its tags and its text is relevant
Complete(item) ==
    /\ item.title # NoTag /\ item.description # NoTag
    /\ item.pubDate # NoTag /\ item.link # NoTag
    /\ item.nlp.exc = "None"
    /\ _is_disaster_related(variant,
           combined_text(strip(item.title), strip(item.description)))

\* C2: a failure on one item is caught at that item: no exception leaves
\* the run from the loop over the items, every item of a feed is taken, and
\* a complete item that comes after a failing one has its record in the
\* output.
C2_FailureStaysInItem ==
    /\ ~(RunRaised /\ pos > 0)
    /\ \A k \in 1..Len(fetched) :
           /\ fetched[k].taken = Len(fetched[k].items)
           /\ \A i, j \in 1..Len(fetched[k].items) :
                  (i < j /\ Fails(fetched[k].items[i], k)
                         /\ Complete(fetched[k].items[j]))
                      => \E r \in Members(output.disaster_articles) :
                             /\ r.source = k
                             /\ r.title = strip(fetched[k].items[j].title)

NoTitle == [WellFormed EXCEPT !.title = NoTag]

\* C3: of a batch of a well-formed item and an item with no title, the
\* output has one record, the well-formed item's, and a diagnostic is
\* recorded for the other.
C3_NoTitleSkipped ==
    (/\ call = "main" /\ pc = "done" /\ Len(fetched) = 1
     /\ fetched[1].items = <<WellFormed, NoTitle>>) =>
        /\ Len(output.disaster_articles) = 1
        /\ output.disaster_articles[1].title = strip(WellFormed.title)
        /\ Len(log) > Len(load_log(variant, csv))

\* C7: an item that is complete but for a date that does not parse (no
\* feed date, empty, or absent) has a record, whose date is the raw string.
C7_BadDateKeepsItem ==
    \A e \in Items :
        (/\ call = "main" /\ pc = "done" /\ Len(fetched) = 1
         /\ fetched[1].items = <<e>>
         /\ Complete([e EXCEPT !.pubDate = I_date])
         /\ (e.pubDate = NoTag \/ ~Conforms(e.pubDate))) =>
            /\ Len(output.disaster_articles) = 1
            /\ output.disaster_articles[1].date =
                   IF e.pubDate = NoTag THEN <<>> ELSE e.pubDate

\* what a record holds of a tag's text: the text trimmed, '' for no tag
EntryText(x) == IF x = NoTag THEN <<>> ELSE strip(x)

\* the combined text of an item matches a keyword of the vocabulary
Matches(item) ==
    \E i \in DOMAIN DISASTER_KEYWORDS(variant) :
        OccursIgnoringCase(DISASTER_KEYWORDS(variant)[i],
                           EntryText(item.title) \o <<" ">>
                               \o EntryText(item.description))

\* the item has its four tags, the entity recogniser takes its text, and
\* its combined text matches a keyword
WellFormedMatch(item) ==
    /\ item.title # NoTag /\ item.description # NoTag
    /\ item.pubDate # NoTag /\ item.link # NoTag
    /\ item.nlp.exc = "None"
    /\ Matches(item)

\* the records of the output that come from feed k
RecordsOf(k) ==
    {n \in 1..Len(output.disaster_articles) :
         output.disaster_articles[n].source = k}

\* C11: of the items of a feed, those whose combined text matches no
\* keyword give no record and each well-formed one whose text matches
\* gives exactly one: a feed has at least as many records as well-formed
\* matching items, at most as many as matching items, and never more than
\* it has items; a run that raises returns no record at all.
C11_RecordPerMatch ==
    /\ \A k \in 1..Len(fetched) :
           LET items == fetched[k].items
               matching == {i \in 1..Len(items) : Matches(items[i])}
               wellformed == {i \in 1..Len(items) : WellFormedMatch(items[i])}
               n == Cardinality(RecordsOf(k))
           IN  /\ Cardinality(wellformed) <= n
               /\ n <= Cardinality(matching)
               /\ n <= Len(items)
    /\ RunRaised => \A i \in 1..Len(feed) : ~WellFormedMatch(feed[i])

\* record r holds the texts of item i of feed k
ComesFrom(r, k, item) ==
    /\ r.source = k
    /\ r.title = EntryText(item.title)
    /\ r.description = EntryText(item.description)
    /\ r.link = EntryText(item.link)

\* the records are a subsequence of the items: each record comes from an
\* item, a later record from a later item
Subsequence(records, items, k) ==
    \E f \in [1..Len(records) -> 1..Len(items)] :
        /\ \A m, n \in 1..Len(records) : m < n => f[m] < f[n]
        /\ \A n \in 1..Len(records) : ComesFrom(records[n], k, items[f[n]])

\* the records of feed k, in the output's order
OutputOf(k) == SelectSeq(output.disaster_articles, LAMBDA r : r.source = k)

\* C12: the output keeps the input's order: its records come feed by feed
\* in the order of the feeds, the records of a feed are a subsequence of
\* the feed's items, as are the records gathered so far of the feed being
\* read among the items taken so far, and the total a run reports is the
\* length of its output.
C12_OutputKeepsOrder ==
    call = "main" =>
        LET out == output.disaster_articles
        IN  /\ \A m, n \in 1..Len(out) : m < n => out[m].source <= out[n].source
            /\ \A n \in 1..Len(out) : out[n].source \in 1..Len(fetched)
            /\ \A k \in 1..Len(fetched) :
                   Subsequence(OutputOf(k), fetched[k].items, k)
            /\ pc \in {"loop", "feed_end"} =>
                   Subsequence(disaster_items, SubSeq(feed, 1, pos),
                               feedno + 1)
            /\ pc = "done" =>
                   /\ output.total_disaster_articles = Len(out)
                   /\ ret = Ok(output)

\* a run of two feeds ended with a record of each, the first feed's first
C12_Witness ==
    /\ call = "main" /\ pc = "done"
    /\ Len(fetched) = 2
    /\ Len(output.disaster_articles) = 2
    /\ output.disaster_articles[1].source = 1
    /\ output.disaster_articles[2].source = 2
    /\ output.total_disaster_articles = 2

\* the values of the columns a script reads, as the script normalises them
BuiltFrom(file) ==
    LET cells == {file.val.rows[i][c] :
                      i \in 1..Len(file.val.rows),
                      c \in columns_read(variant) \cap file.val.columns}
    IN  {IF variant = "jsonCURR" THEN lower(strip(x)) ELSE lower(x) :
             x \in cells \ {NaN}}

\* some item of a sequence of items failed or was skipped
SomeSkipped(items) ==
    \E i \in 1..Len(items) :
        \/ items[i].nlp.exc # "None"
        \/ NoTag \in {items[i].title, items[i].pubDate, items[i].link}

\* C13: once the scraper is constructed its gazetteer stays what the
\* construction made it, whatever items are processed, fail or are
\* skipped, and the total_locations a run reports is its size.
C13_GazetteerUnchanged ==
    (call = "main" /\ pc # "new" /\ ~(pc = "raised" /\ output = NoOutput)) =>
        /\ cities = IF csv.exc = "None"
                       /\ ~no_str(csv.val, columns_read(variant))
                    THEN BuiltFrom(csv) ELSE {}
        /\ output # NoOutput => output.total_locations = Cardinality(cities)

\* a run of two feeds ended on a gazetteer of one place, each feed holding
\* an item that failed or was skipped
C13_Witness ==
    /\ call = "main" /\ pc = "done"
    /\ cities # {}
    /\ Len(fetched) = 2
    /\ \A k \in 1..2 : SomeSkipped(fetched[k].items)
    /\ output.total_locations = 1

=============================================================================
